---- MODULE Spec2Model ----
(***************************************************************************)
(* Session/state synchronisation of the Simple Multi Chat UI (src/app.py). *)
(*                                                                         *)
(* The state is the three gr.State holders, the displayed components the   *)
(* handlers write (views, chat selector, chatbot, message box) and the     *)
(* remote server the handlers talk to.  The other text boxes are inputs    *)
(* only: what a handler writes back to them is part of its result but is   *)
(* not kept as state.  There is one action per event listener of the      *)
(* "Event Handler Wiring" section; each action runs the whole handler,     *)
(* applies its outputs and, when the chat selector's value changed, runs   *)
(* the selector's change listener.                                         *)
(*                                                                         *)
(* Conventions.  Python None is the atom None; ids, tokens, user names and *)
(* passwords are atoms.  Chat names and message texts are tuples of        *)
(* one-character strings, so that str.strip() can be computed.             *)
(***************************************************************************)
EXTENDS Integers, Sequences, FiniteSets, TLC

\* ------------------------------------------------------------------ bounds
\* Number of chats the server ever creates.
MaxChats == 1
\* Number of message entries the server stores per chat.
MaxMsgs == 1

\* ----------------------------------------------------------- basic values
None == "None"
EmptyStr == ""
\* Python truthiness of an id / token / user name: None and "" are falsy.
Falsy(x) == x \in {None, EmptyStr}

\* Names the server gives to the chats it creates, in creation order.
ChatIdNames == <<"c1", "c2", "c3", "c4">>
IdOf(n) == ChatIdNames[n]
ChatIds == {IdOf(n) : n \in 1..Len(ChatIdNames)}

\* The bearer token the server issues.
ServerToken == "tok"

\* Texts (tuples of characters).
NoText == <<>>
Blank == <<" ">>
\* str.strip(): drop leading and trailing whitespace.
RECURSIVE LStrip(_)
LStrip(s) == IF s # <<>> /\ Head(s) = " " THEN LStrip(Tail(s)) ELSE s
RECURSIVE RStrip(_)
RStrip(s) == IF s # <<>> /\ s[Len(s)] = " " THEN RStrip(SubSeq(s, 1, Len(s) - 1)) ELSE s
Strip(s) == RStrip(LStrip(s))

\* Inputs a user can type.
UserNames == {EmptyStr, "alice"}
Passwords == {EmptyStr, "pw"}
CreateNames == {<<"a">>}
RenameNames == {Blank, <<"b">>}
MsgTexts == {Blank, <<"h">>}

\* The placeholder get_chats uses for a point without a name.
UnnamedChat == <<"U", "n", "n", "a", "m", "e", "d", " ", "C", "h", "a", "t">>

\* -------------------------------------------------------- log of an operation
\* What an operation did: the HTTP requests it issued (and the settle delay),
\* in order, and the user-visible notifications it emitted.  A request is
\* logged with its endpoint, the chat id it names, whether the reply was 2xx
\* and what the caller made of the reply (the token, the chat pairs, the
\* history).
Req(ep, chat, ok, got) == [ep |-> ep, chat |-> chat, ok |-> ok, got |-> got]
Sleep == [ep |-> "sleep", chat |-> None, ok |-> TRUE, got |-> <<>>]
Note(level, msg) == [level |-> level, msg |-> msg]

\* handle_api_error: one warning, whatever detail could be extracted.
handle_api_error(context) == <<Note("warning", context)>>

\* get_headers: raises ValueError without a token.
\* (Variant: get_headers without the token check.)
HeadersOk_NoCheck(auth_token) == TRUE
HeadersOk(auth_token) == ~Falsy(auth_token)

\* ----------------------------------------------------------- server replies
\* A reply is a status and a body.  status "ok" is a 2xx reply, "http" a
\* non-2xx reply (raise_for_status raises HTTPError), "unauthorized" a 401,
\* "transport" a failure without a reply.
FailStatuses == {"http", "transport"}
IsOk(reply) == reply.status = "ok"

\* A point of the list-chats reply: {id, metadata: {name}}, each part optional.
Point(hasId, id, hasMeta, hasName, name) ==
    [hasId |-> hasId, id |-> id, hasMeta |-> hasMeta, hasName |-> hasName, name |-> name]

\* A point of the list-messages reply: {metadata: {text?, bot?}}.
Entry(hasText, text, hasBot, bot) ==
    [hasText |-> hasText, text |-> text, hasBot |-> hasBot, bot |-> bot]
BotReply == <<"r">>

\* Sequence helpers.
RECURSIVE Flatten(_)
Flatten(ss) == IF ss = <<>> THEN <<>> ELSE Head(ss) \o Flatten(Tail(ss))
RECURSIVE Remove(_, _)
Remove(s, id) ==
    IF s = <<>> THEN <<>>
    ELSE IF Head(s).id = id THEN Remove(Tail(s), id)
    ELSE <<Head(s)>> \o Remove(Tail(s), id)

\* ------------------------------------------------------------- API client

\* get_chats: the (name, id) pairs of the reply's points; [] on any caught
\* failure.  p["metadata"] and p["id"] raise KeyError on a point without
\* them, which the except clause (RequestException, ValueError) lets through.
ChatPair(p) == <<IF p.hasName THEN p.name ELSE UnnamedChat, p.id>>
PointRaises(p) == ~p.hasMeta \/ ~p.hasId
get_chats(auth_token, reply) ==
    IF ~HeadersOk(auth_token)
    THEN [chats |-> <<>>, raised |-> FALSE, events |-> <<>>,
          notes |-> handle_api_error("fetching chats")]
    ELSE IF ~IsOk(reply)
    THEN [chats |-> <<>>, raised |-> FALSE,
          events |-> <<Req("get_chats", None, FALSE, <<>>)>>,
          notes |-> handle_api_error("fetching chats")]
    ELSE IF ~reply.hasPoints \/ reply.points = <<>>
    THEN [chats |-> <<>>, raised |-> FALSE,
          events |-> <<Req("get_chats", None, TRUE, <<>>)>>, notes |-> <<>>]
    ELSE IF \E i \in 1..Len(reply.points) : PointRaises(reply.points[i])
    THEN [chats |-> <<>>, raised |-> TRUE,
          events |-> <<Req("get_chats", None, TRUE, <<>>)>>, notes |-> <<>>]
    ELSE LET chats == [i \in 1..Len(reply.points) |-> ChatPair(reply.points[i])] IN
         [chats |-> chats, raised |-> FALSE,
          events |-> <<Req("get_chats", None, TRUE, chats)>>, notes |-> <<>>]

\* create_chat: one POST; success message on 2xx, warning otherwise.
create_chat(auth_token, chat_name, reply) ==
    IF ~HeadersOk(auth_token)
    THEN [events |-> <<>>, notes |-> handle_api_error("creating chat")]
    ELSE [events |-> <<Req("create_chat", None, IsOk(reply), <<>>)>>,
          notes |-> IF IsOk(reply) THEN <<Note("success", "created")>>
                    ELSE handle_api_error("creating chat")]

\* delete_chat: warns without a chat id; one DELETE otherwise; no message on 2xx.
delete_chat(auth_token, chat_id, reply) ==
    IF Falsy(chat_id)
    THEN [events |-> <<>>, notes |-> <<Note("warning", "select a chat to delete")>>]
    ELSE IF ~HeadersOk(auth_token)
    THEN [events |-> <<>>, notes |-> handle_api_error("deleting chat")]
    ELSE [events |-> <<Req("delete_chat", chat_id, IsOk(reply), <<>>)>>,
          notes |-> IF IsOk(reply) THEN <<>> ELSE handle_api_error("deleting chat")]

\* rename_chat: warns without a chat id or with a blank name; one POST otherwise.
\* (Variant: rename_chat without the blank-name check.)
rename_chat_NoBlankCheck(auth_token, chat_id, new_name, reply) ==
    IF Falsy(chat_id)
    THEN [events |-> <<>>, notes |-> <<Note("warning", "select a chat to rename")>>]
    ELSE IF ~HeadersOk(auth_token)
    THEN [events |-> <<>>, notes |-> handle_api_error("renaming chat")]
    ELSE [events |-> <<Req("rename_chat", chat_id, IsOk(reply), <<>>)>>,
          notes |-> IF IsOk(reply) THEN <<Note("success", "renamed")>>
                    ELSE handle_api_error("renaming chat")]
rename_chat(auth_token, chat_id, new_name, reply) ==
    IF Falsy(chat_id)
    THEN [events |-> <<>>, notes |-> <<Note("warning", "select a chat to rename")>>]
    ELSE IF Strip(new_name) = NoText
    THEN [events |-> <<>>, notes |-> <<Note("warning", "new name cannot be empty")>>]
    ELSE IF ~HeadersOk(auth_token)
    THEN [events |-> <<>>, notes |-> handle_api_error("renaming chat")]
    ELSE [events |-> <<Req("rename_chat", chat_id, IsOk(reply), <<>>)>>,
          notes |-> IF IsOk(reply) THEN <<Note("success", "renamed")>>
                    ELSE handle_api_error("renaming chat")]

\* The turns one message entry contributes: a user turn for a truthy text,
\* then an assistant turn for a truthy bot.
Turn(role, content) == [role |-> role, content |-> content]
\* (Variant: the assistant turn is appended before the user turn.)
EntryTurns_BotFirst(e) ==
    (IF e.hasBot /\ e.bot # NoText THEN <<Turn("assistant", e.bot)>> ELSE <<>>)
    \o (IF e.hasText /\ e.text # NoText THEN <<Turn("user", e.text)>> ELSE <<>>)
EntryTurns(e) ==
    (IF e.hasText /\ e.text # NoText THEN <<Turn("user", e.text)>> ELSE <<>>)
    \o (IF e.hasBot /\ e.bot # NoText THEN <<Turn("assistant", e.bot)>> ELSE <<>>)
BuildHistory(points) == Flatten([i \in 1..Len(points) |-> EntryTurns(points[i])])

\* get_chat_messages: (history, label).  No request without a chat id or a
\* token; [] on a failed request; [] when iterating the points raises
\* TypeError (points is null).
get_chat_messages(auth_token, chat_id, reply) ==
    IF Falsy(chat_id)
    THEN [history |-> <<>>, label |-> "Select a chat to see messages",
          events |-> <<>>, notes |-> <<>>]
    ELSE IF ~HeadersOk(auth_token)
    THEN [history |-> <<>>, label |-> "Error loading messages",
          events |-> <<>>, notes |-> handle_api_error("fetching messages")]
    ELSE IF ~IsOk(reply)
    THEN [history |-> <<>>, label |-> "Error loading messages",
          events |-> <<Req("get_messages", chat_id, FALSE, <<>>)>>,
          notes |-> handle_api_error("fetching messages")]
    ELSE IF reply.pointsNull
    THEN [history |-> <<>>, label |-> "Could not parse message response",
          events |-> <<Req("get_messages", chat_id, TRUE, <<>>)>>,
          notes |-> <<Note("warning", "error parsing response")>>]
    ELSE [history |-> BuildHistory(reply.points), label |-> "History for",
          events |-> <<Req("get_messages", chat_id, TRUE, BuildHistory(reply.points))>>,
          notes |-> <<>>]

\* send_message_and_get_reply: None (isNone) without a chat id, with a blank
\* text, without a token or when the POST fails; otherwise the settle delay
\* and then the history get_chat_messages returns.
\* (Variant: the history is fetched before the settle delay.)
send_message_and_get_reply_FetchFirst(auth_token, chat_id, text, sendReply, msgsReply) ==
    IF Falsy(chat_id)
    THEN [isNone |-> TRUE, history |-> <<>>, events |-> <<>>,
          notes |-> <<Note("warning", "no chat selected")>>]
    ELSE IF Strip(text) = NoText
    THEN [isNone |-> TRUE, history |-> <<>>, events |-> <<>>,
          notes |-> <<Note("warning", "empty message")>>]
    ELSE IF ~HeadersOk(auth_token)
    THEN [isNone |-> TRUE, history |-> <<>>, events |-> <<>>,
          notes |-> handle_api_error("sending message")]
    ELSE IF ~IsOk(sendReply)
    THEN [isNone |-> TRUE, history |-> <<>>,
          events |-> <<Req("send_message", chat_id, FALSE, <<>>)>>,
          notes |-> handle_api_error("sending message")]
    ELSE LET m == get_chat_messages(auth_token, chat_id, msgsReply) IN
         [isNone |-> FALSE, history |-> m.history,
          events |-> <<Req("send_message", chat_id, TRUE, <<>>)>> \o m.events
                     \o <<Sleep>>,
          notes |-> m.notes]
send_message_and_get_reply(auth_token, chat_id, text, sendReply, msgsReply) ==
    IF Falsy(chat_id)
    THEN [isNone |-> TRUE, history |-> <<>>, events |-> <<>>,
          notes |-> <<Note("warning", "no chat selected")>>]
    ELSE IF Strip(text) = NoText
    THEN [isNone |-> TRUE, history |-> <<>>, events |-> <<>>,
          notes |-> <<Note("warning", "empty message")>>]
    ELSE IF ~HeadersOk(auth_token)
    THEN [isNone |-> TRUE, history |-> <<>>, events |-> <<>>,
          notes |-> handle_api_error("sending message")]
    ELSE IF ~IsOk(sendReply)
    THEN [isNone |-> TRUE, history |-> <<>>,
          events |-> <<Req("send_message", chat_id, FALSE, <<>>)>>,
          notes |-> handle_api_error("sending message")]
    ELSE LET m == get_chat_messages(auth_token, chat_id, msgsReply) IN
         [isNone |-> FALSE, history |-> m.history,
          events |-> <<Req("send_message", chat_id, TRUE, <<>>), Sleep>> \o m.events,
          notes |-> m.notes]

\* ------------------------------------------------------------------ state
VARIABLES
    auth_token_state,        \* gr.State(None): the bearer token or None
    chat_list_data_state,    \* gr.State([]): the cached (name, id) pairs
    selected_chat_id_state,  \* gr.State(None): the selected chat id or None
    login_view,              \* visibility of the login group
    main_view,               \* visibility of the main group
    chat_selector_radio,     \* the selector: its choices and its chosen value
    chatbot,                 \* the displayed message history
    message_input,           \* the text shown in the message box
    srvChats,                \* server: the chats, as [id, name], in reply order
    srvMsgs,                 \* server: chat id -> stored message entries
    nextId,                  \* server: index of the next chat id to issue
    pending,                 \* the send handler run that is in its settle delay
    fetched,                 \* chat id -> result of the latest list-messages fetch
    last                     \* log of the last operation

uiVars == <<auth_token_state, chat_list_data_state, selected_chat_id_state,
            login_view, main_view, chat_selector_radio, chatbot, message_input>>
srvVars == <<srvChats, srvMsgs, nextId>>
vars == <<uiVars, srvVars, pending, fetched, last>>

\* The displayed values, as one record.
Cur ==
    [login_view |-> login_view, main_view |-> main_view,
     auth_token |-> auth_token_state, chat_list |-> chat_list_data_state,
     selected |-> selected_chat_id_state, chatbot |-> chatbot,
     radio |-> chat_selector_radio, message |-> message_input]

\* What an operation found displayed when it began.
Pre ==
    [auth_token |-> auth_token_state, selected |-> selected_chat_id_state,
     radio_value |-> chat_selector_radio.value, chatbot |-> chatbot]

\* What is remembered of the operation before the last one: when it was a
\* refresh that made its list-chats request and returned, the outcome of that
\* request and the chat list the refresh gave.
NoPrev == [refresh |-> FALSE, listed |-> "none", chats |-> <<>>]

\* No send handler run is in its settle delay.
Idle == [busy |-> FALSE, id |-> None, text |-> NoText, auth_token |-> None]

NoArgs == [text |-> NoText, id |-> None, user |-> EmptyStr, pass |-> EmptyStr]

Init ==
    /\ auth_token_state = None
    /\ chat_list_data_state = <<>>
    /\ selected_chat_id_state = None
    /\ login_view = TRUE
    /\ main_view = FALSE
    /\ chat_selector_radio = [choices |-> <<>>, value |-> None]
    /\ chatbot = <<>>
    /\ message_input = NoText
    /\ srvChats = <<>>
    /\ srvMsgs = [c \in ChatIds |-> <<>>]
    /\ nextId = 1
    /\ pending = Idle
    /\ fetched = [c \in ChatIds |-> None]
    /\ last = [op |-> "init", raised |-> FALSE, events |-> <<>>, notes |-> <<>>,
               args |-> NoArgs, pre |-> Pre, prev |-> NoPrev]

\* ------------------------------------------------- what the server can reply
SrvHas(chats, id) == \E i \in 1..Len(chats) : chats[i].id = id

ChatsReply(status, hasPoints, points) ==
    [status |-> status, hasPoints |-> hasPoints, points |-> points]
WellFormedPoints(chats) ==
    [i \in 1..Len(chats) |-> Point(TRUE, chats[i].id, TRUE, TRUE, chats[i].name)]
\* The same points, the first one without its id / without its metadata.
NoIdPoints(chats) ==
    [i \in 1..Len(chats) |->
        Point(i # 1, chats[i].id, TRUE, TRUE, chats[i].name)]
NoMetaPoints(chats) ==
    [i \in 1..Len(chats) |->
        Point(TRUE, chats[i].id, i # 1, i # 1, chats[i].name)]
ChatsReplies(chats) ==
    {ChatsReply(s, FALSE, <<>>) : s \in FailStatuses}
    \cup {ChatsReply("ok", TRUE, WellFormedPoints(chats))}
    \cup (IF chats = <<>> THEN {ChatsReply("ok", FALSE, <<>>)}
          ELSE {ChatsReply("ok", TRUE, NoIdPoints(chats)),
                ChatsReply("ok", TRUE, NoMetaPoints(chats))})

MsgsReply(status, pointsNull, points) ==
    [status |-> status, pointsNull |-> pointsNull, points |-> points]
MsgsReplies(chats, msgs, id) ==
    {MsgsReply(s, FALSE, <<>>) : s \in FailStatuses}
    \cup (IF SrvHas(chats, id)
          THEN {MsgsReply("ok", FALSE, msgs[id]), MsgsReply("ok", TRUE, <<>>)}
          ELSE {})

\* Replies that carry no body.
PlainReply(status) == [status |-> status]
PlainReplies == {PlainReply(s) : s \in FailStatuses \cup {"ok"}}

\* Replies of /auth/token: 2xx with, with an empty, or without access_token;
\* 401; another non-2xx status; no reply.
AuthReply(status, token) == [status |-> status, token |-> token]
AuthReplies ==
    {AuthReply("ok", t) : t \in {ServerToken, EmptyStr, None}}
    \cup {AuthReply(s, None) : s \in FailStatuses \cup {"unauthorized"}}

\* ------------------------------------------------------- UI logic (handlers)
\* gr.update(choices=c) leaves the chosen value alone; gr.update(choices=c,
\* value=None) also resets it.
Update(choices, setValue) == [choices |-> choices, setValue |-> setValue]
\* (Variant: an update never touches the chosen value.)
ApplyUpdate_KeepValue(radio, upd) == [choices |-> upd.choices, value |-> radio.value]
ApplyUpdate(radio, upd) ==
    [choices |-> upd.choices, value |-> IF upd.setValue THEN None ELSE radio.value]

\* (Variant: the refresh updates the choices and leaves the chosen value.)
refresh_and_update_components_KeepValue(auth_token, reply) ==
    IF Falsy(auth_token)
    THEN [upd |-> Update(<<>>, FALSE), chats |-> <<>>, raised |-> FALSE,
          events |-> <<>>, notes |-> <<>>]
    ELSE LET g == get_chats(auth_token, reply) IN
         [upd |-> Update(g.chats, FALSE), chats |-> g.chats, raised |-> g.raised,
          events |-> g.events, notes |-> g.notes]
refresh_and_update_components(auth_token, reply) ==
    IF Falsy(auth_token)
    THEN [upd |-> Update(<<>>, FALSE), chats |-> <<>>, raised |-> FALSE,
          events |-> <<>>, notes |-> <<>>]
    ELSE LET g == get_chats(auth_token, reply) IN
         [upd |-> Update(g.chats, TRUE), chats |-> g.chats, raised |-> g.raised,
          events |-> g.events, notes |-> g.notes]

\* The tuple login returns on every failure.
\* (Variant: a failed login shows the main view as well.)
LoginFailed_MainShown(events, notes) ==
    [login_view |-> TRUE, main_view |-> TRUE, auth_token |-> None,
     chat_list |-> <<>>, upd |-> Update(<<>>, FALSE), raised |-> FALSE,
     events |-> events, notes |-> notes]
LoginFailed(events, notes) ==
    [login_view |-> TRUE, main_view |-> FALSE, auth_token |-> None,
     chat_list |-> <<>>, upd |-> Update(<<>>, FALSE), raised |-> FALSE,
     events |-> events, notes |-> notes]
\* (Variant: login checks the user name only.)
login_NoPasswordCheck(username, password, authReply, chatsReply) ==
    IF Falsy(username)
    THEN LoginFailed(<<>>, <<Note("warning", "username and password are required")>>)
    ELSE LET ev == <<Req("token", None, IsOk(authReply), authReply.token)>> IN
         IF authReply.status = "unauthorized"
         THEN LoginFailed(ev, <<Note("warning", "invalid username or password")>>)
         ELSE IF ~IsOk(authReply)
         THEN LoginFailed(ev, handle_api_error("authentication"))
         ELSE IF Falsy(authReply.token)
         THEN LoginFailed(ev, <<Note("warning", "no token received")>>)
         ELSE LET r == refresh_and_update_components(authReply.token, chatsReply) IN
              [login_view |-> FALSE, main_view |-> TRUE,
               auth_token |-> authReply.token, chat_list |-> r.chats,
               upd |-> r.upd, raised |-> r.raised,
               events |-> ev \o r.events,
               notes |-> <<Note("success", "login successful")>> \o r.notes]
login(username, password, authReply, chatsReply) ==
    IF Falsy(username) \/ Falsy(password)
    THEN LoginFailed(<<>>, <<Note("warning", "username and password are required")>>)
    ELSE LET ev == <<Req("token", None, IsOk(authReply), authReply.token)>> IN
         IF authReply.status = "unauthorized"
         THEN LoginFailed(ev, <<Note("warning", "invalid username or password")>>)
         ELSE IF ~IsOk(authReply)
         THEN LoginFailed(ev, handle_api_error("authentication"))
         ELSE IF Falsy(authReply.token)
         THEN LoginFailed(ev, <<Note("warning", "no token received")>>)
         ELSE LET r == refresh_and_update_components(authReply.token, chatsReply) IN
              [login_view |-> FALSE, main_view |-> TRUE,
               auth_token |-> authReply.token, chat_list |-> r.chats,
               upd |-> r.upd, raised |-> r.raised,
               events |-> ev \o r.events,
               notes |-> <<Note("success", "login successful")>> \o r.notes]

\* (Variant: logout empties the selector's choices and leaves its value.)
logout_KeepValue ==
    [login_view |-> TRUE, main_view |-> FALSE, auth_token |-> None,
     chat_list |-> <<>>, selected |-> None, chatbot |-> <<>>,
     upd |-> Update(<<>>, FALSE), username |-> EmptyStr, password |-> EmptyStr,
     events |-> <<>>, notes |-> <<Note("info", "user logged out")>>]
logout ==
    [login_view |-> TRUE, main_view |-> FALSE, auth_token |-> None,
     chat_list |-> <<>>, selected |-> None, chatbot |-> <<>>,
     upd |-> Update(<<>>, TRUE), username |-> EmptyStr, password |-> EmptyStr,
     events |-> <<>>, notes |-> <<Note("info", "user logged out")>>]

\* (Variant: the change listener shows the history and does not keep the id.)
on_chat_select_DropId(selected_id, auth_token, reply) ==
    IF ~Falsy(selected_id)
    THEN LET m == get_chat_messages(auth_token, selected_id, reply) IN
         [history |-> m.history, selected |-> None,
          events |-> m.events, notes |-> m.notes]
    ELSE [history |-> <<>>, selected |-> None, events |-> <<>>, notes |-> <<>>]
on_chat_select(selected_id, auth_token, reply) ==
    IF ~Falsy(selected_id)
    THEN LET m == get_chat_messages(auth_token, selected_id, reply) IN
         [history |-> m.history, selected |-> selected_id,
          events |-> m.events, notes |-> m.notes]
    ELSE [history |-> <<>>, selected |-> None, events |-> <<>>, notes |-> <<>>]

\* (Variant: create refreshes the choices and leaves the chosen value.)
handle_create_chat_KeepValue(name, auth_token, createReply, chatsReply) ==
    LET c == create_chat(auth_token, name, createReply)
        r == refresh_and_update_components(auth_token, chatsReply)
    IN [upd |-> Update(r.chats, FALSE), chat_list |-> r.chats,
        new_chat_name |-> NoText, raised |-> r.raised,
        events |-> c.events \o r.events, notes |-> c.notes \o r.notes]
handle_create_chat(name, auth_token, createReply, chatsReply) ==
    LET c == create_chat(auth_token, name, createReply)
        r == refresh_and_update_components(auth_token, chatsReply)
    IN [upd |-> r.upd, chat_list |-> r.chats, new_chat_name |-> NoText,
        raised |-> r.raised, events |-> c.events \o r.events,
        notes |-> c.notes \o r.notes]

\* noUpdate: every output is gr.update(), which changes nothing.
handle_delete_chat(selected_id, chat_list_data, auth_token, deleteReply, chatsReply) ==
    IF ~Falsy(selected_id)
    THEN LET d == delete_chat(auth_token, selected_id, deleteReply)
             r == refresh_and_update_components(auth_token, chatsReply)
         IN [noUpdate |-> FALSE, upd |-> r.upd, chat_list |-> r.chats,
             selected |-> None, chatbot |-> <<>>, raised |-> r.raised,
             events |-> d.events \o r.events,
             notes |-> d.notes \o <<Note("success", "deleted")>> \o r.notes]
    ELSE [noUpdate |-> TRUE, upd |-> Update(<<>>, FALSE), chat_list |-> <<>>,
          selected |-> None, chatbot |-> <<>>, raised |-> FALSE,
          events |-> <<>>, notes |-> <<Note("warning", "no chat selected to delete")>>]

handle_rename_chat(selected_id, new_name, auth_token, renameReply, chatsReply) ==
    IF Falsy(selected_id)
    THEN [noUpdate |-> TRUE, upd |-> Update(<<>>, FALSE), chat_list |-> <<>>,
          rename_name |-> new_name, raised |-> FALSE, events |-> <<>>,
          notes |-> <<Note("warning", "select a chat to rename")>>]
    ELSE LET n == rename_chat(auth_token, selected_id, new_name, renameReply)
             r == refresh_and_update_components(auth_token, chatsReply)
         IN [noUpdate |-> FALSE, upd |-> r.upd, chat_list |-> r.chats,
             rename_name |-> NoText, raised |-> r.raised,
             events |-> n.events \o r.events, notes |-> n.notes \o r.notes]

handle_send_and_refresh(selected_chat_id, text, auth_token, sendReply, msgsReply) ==
    IF Falsy(selected_chat_id)
    THEN [chatbot |-> <<>>, message |-> NoText, events |-> <<>>,
          notes |-> <<Note("warning", "select a chat first")>>]
    ELSE LET u == send_message_and_get_reply(auth_token, selected_chat_id, text,
                                             sendReply, msgsReply)
         IN IF u.isNone
            THEN LET m == get_chat_messages(auth_token, selected_chat_id, msgsReply) IN
                 [chatbot |-> m.history, message |-> text,
                  events |-> u.events \o m.events, notes |-> u.notes \o m.notes]
            ELSE [chatbot |-> u.history, message |-> NoText,
                  events |-> u.events, notes |-> u.notes]

\* ---------------------------------------------------------------- actions
HasOkReq(events, ep) == \E i \in 1..Len(events) : events[i].ep = ep /\ events[i].ok
Asked(events, ep) == \E i \in 1..Len(events) : events[i].ep = ep
NoReply == PlainReply("transport")
NoAuthReply == AuthReply("transport", None)
NoChatsReply == ChatsReply("transport", FALSE, <<>>)
NoMsgsReply == MsgsReply("transport", FALSE, <<>>)
\* The replies to draw from: those the server can give when the request is
\* made; when it is not made there is no reply to draw.
RepliesIf(asked, replies, none) == IF asked THEN replies ELSE {none}

\* The outcome of the list-chats request among `events`: "none" when none was
\* made, "ok" for a 2xx reply, "failed" otherwise.
Listed(events) ==
    IF ~Asked(events, "get_chats") THEN "none"
    ELSE IF HasOkReq(events, "get_chats") THEN "ok" ELSE "failed"

\* The latest list-messages result per chat id after `events`.
RECURSIVE FetchedAfter(_, _)
FetchedAfter(f, events) ==
    IF events = <<>> THEN f
    ELSE LET e == Head(events) IN
         FetchedAfter(IF e.ep = "get_messages" THEN [f EXCEPT ![e.chat] = e.got] ELSE f,
                      Tail(events))

\* Apply the outputs `out` of a handler run.  When `chain` is set and the
\* outputs changed the selector's value, chat_selector_radio.change runs
\* on_chat_select on the new value and writes chatbot and selected_chat_id_state.
Apply(op, args, out, events, notes, raised, chain) ==
    LET fire == chain /\ out.radio.value # chat_selector_radio.value
        c == on_chat_select(out.radio.value, out.auth_token, NoMsgsReply)
    IN /\ login_view' = out.login_view
       /\ main_view' = out.main_view
       /\ auth_token_state' = out.auth_token
       /\ chat_list_data_state' = out.chat_list
       /\ chat_selector_radio' = out.radio
       /\ selected_chat_id_state' = IF fire THEN c.selected ELSE out.selected
       /\ chatbot' = IF fire THEN c.history ELSE out.chatbot
       /\ message_input' = out.message
       /\ last' = [op |-> op, raised |-> raised,
                   events |-> IF fire THEN events \o c.events ELSE events,
                   notes |-> IF fire THEN notes \o c.notes ELSE notes,
                   args |-> args, pre |-> Pre,
                   prev |-> IF last.op = "refresh" /\ ~last.raised
                                   /\ Listed(last.events) # "none"
                            THEN [refresh |-> TRUE, listed |-> Listed(last.events),
                                  chats |-> chat_list_data_state]
                            ELSE NoPrev]
       /\ fetched' = FetchedAfter(fetched, IF fire THEN events \o c.events ELSE events)

\* A handler that runs from its inputs to its outputs with no other listener
\* in between.
Commit(op, args, out, events, notes, raised, chain) ==
    /\ Apply(op, args, out, events, notes, raised, chain)
    /\ UNCHANGED pending

\* login_btn.click
Login ==
    \E u \in UserNames, p \in Passwords :
    \E a \in RepliesIf(Asked(login(u, p, NoAuthReply, NoChatsReply).events, "token"),
                       AuthReplies, NoAuthReply) :
    \E c \in RepliesIf(Asked(login(u, p, a, NoChatsReply).events, "get_chats"),
                       ChatsReplies(srvChats), NoChatsReply) :
        LET r == login(u, p, a, c)
            out == IF r.raised THEN Cur
                   ELSE [Cur EXCEPT !.login_view = r.login_view,
                                    !.main_view = r.main_view,
                                    !.auth_token = r.auth_token,
                                    !.chat_list = r.chat_list,
                                    !.radio = ApplyUpdate(@, r.upd)]
        IN /\ Commit("login", [NoArgs EXCEPT !.user = u, !.pass = p], out,
                     r.events, r.notes, r.raised, TRUE)
           /\ UNCHANGED srvVars

\* logout_btn.click
Logout ==
    LET r == logout
        out == [Cur EXCEPT !.login_view = r.login_view, !.main_view = r.main_view,
                           !.auth_token = r.auth_token, !.chat_list = r.chat_list,
                           !.selected = r.selected, !.chatbot = r.chatbot,
                           !.radio = ApplyUpdate(@, r.upd)]
    IN /\ Commit("logout", NoArgs, out, r.events, r.notes, FALSE, TRUE)
       /\ UNCHANGED srvVars

\* refresh_chats_btn.click
\* (Variant: the refresh appends what it fetched to the cached chat list.)
Refresh_Append ==
    \E c \in RepliesIf(Asked(refresh_and_update_components(auth_token_state,
                                                            NoChatsReply).events,
                             "get_chats"),
                       ChatsReplies(srvChats), NoChatsReply) :
        LET r == refresh_and_update_components(auth_token_state, c)
            out == IF r.raised THEN Cur
                   ELSE [Cur EXCEPT !.radio = ApplyUpdate(@, r.upd),
                                    !.chat_list = @ \o r.chats]
        IN /\ Commit("refresh", NoArgs, out, r.events, r.notes, r.raised, TRUE)
           /\ UNCHANGED srvVars
Refresh ==
    \E c \in RepliesIf(Asked(refresh_and_update_components(auth_token_state,
                                                            NoChatsReply).events,
                             "get_chats"),
                       ChatsReplies(srvChats), NoChatsReply) :
        LET r == refresh_and_update_components(auth_token_state, c)
            out == IF r.raised THEN Cur
                   ELSE [Cur EXCEPT !.radio = ApplyUpdate(@, r.upd),
                                    !.chat_list = r.chats]
        IN /\ Commit("refresh", NoArgs, out, r.events, r.notes, r.raised, TRUE)
           /\ UNCHANGED srvVars

\* chat_selector_radio.change, the user choosing another of the offered chats
\* (Variant: the change listener keeps the id and leaves the chatbot as it was.)
Select_KeepHistory ==
    \E i \in 1..Len(chat_selector_radio.choices) :
        LET id == chat_selector_radio.choices[i][2] IN
        /\ id # chat_selector_radio.value
        /\ \E m \in RepliesIf(Asked(on_chat_select(id, auth_token_state,
                                                    NoMsgsReply).events, "get_messages"),
                               MsgsReplies(srvChats, srvMsgs, id), NoMsgsReply) :
            LET r == on_chat_select(id, auth_token_state, m)
                out == [Cur EXCEPT !.radio.value = id, !.selected = r.selected]
            IN /\ Commit("select", [NoArgs EXCEPT !.id = id], out,
                         r.events, r.notes, FALSE, FALSE)
               /\ UNCHANGED srvVars
Select ==
    \E i \in 1..Len(chat_selector_radio.choices) :
        LET id == chat_selector_radio.choices[i][2] IN
        /\ id # chat_selector_radio.value
        /\ \E m \in RepliesIf(Asked(on_chat_select(id, auth_token_state,
                                                    NoMsgsReply).events, "get_messages"),
                               MsgsReplies(srvChats, srvMsgs, id), NoMsgsReply) :
            LET r == on_chat_select(id, auth_token_state, m)
                out == [Cur EXCEPT !.radio.value = id, !.chatbot = r.history,
                                   !.selected = r.selected]
            IN /\ Commit("select", [NoArgs EXCEPT !.id = id], out,
                         r.events, r.notes, FALSE, FALSE)
               /\ UNCHANGED srvVars

\* create_chat_btn.click
Create ==
    \E name \in CreateNames :
    \E cr \in RepliesIf(Asked(handle_create_chat(name, auth_token_state, NoReply,
                                                  NoChatsReply).events, "create_chat"),
                        PlainReplies, NoReply) :
        LET first == handle_create_chat(name, auth_token_state, cr, NoChatsReply)
            created == HasOkReq(first.events, "create_chat")
            chats2 == IF created
                      THEN Append(srvChats, [id |-> IdOf(nextId), name |-> name])
                      ELSE srvChats
        IN /\ IsOk(cr) => created /\ nextId <= MaxChats
           /\ srvChats' = chats2
           /\ nextId' = IF created THEN nextId + 1 ELSE nextId
           /\ UNCHANGED srvMsgs
           /\ \E c \in RepliesIf(Asked(first.events, "get_chats"),
                                  ChatsReplies(chats2), NoChatsReply) :
               LET r == handle_create_chat(name, auth_token_state, cr, c)
                   out == IF r.raised THEN Cur
                          ELSE [Cur EXCEPT !.radio = ApplyUpdate(@, r.upd),
                                           !.chat_list = r.chat_list]
               IN Commit("create", [NoArgs EXCEPT !.text = name], out,
                         r.events, r.notes, r.raised, TRUE)

\* delete_chat_btn.click
Delete ==
    \E dr \in RepliesIf(Asked(handle_delete_chat(selected_chat_id_state,
                                                  chat_list_data_state,
                                                  auth_token_state, NoReply,
                                                  NoChatsReply).events, "delete_chat"),
                        PlainReplies, NoReply) :
        LET sel == selected_chat_id_state
            first == handle_delete_chat(sel, chat_list_data_state, auth_token_state,
                                        dr, NoChatsReply)
            deleted == HasOkReq(first.events, "delete_chat")
            chats2 == IF deleted THEN Remove(srvChats, sel) ELSE srvChats
        IN /\ IsOk(dr) => deleted
           /\ srvChats' = chats2
           /\ srvMsgs' = IF deleted THEN [srvMsgs EXCEPT ![sel] = <<>>] ELSE srvMsgs
           /\ UNCHANGED nextId
           /\ \E c \in RepliesIf(Asked(first.events, "get_chats"),
                                  ChatsReplies(chats2), NoChatsReply) :
               LET r == handle_delete_chat(sel, chat_list_data_state,
                                           auth_token_state, dr, c)
                   out == IF r.raised \/ r.noUpdate THEN Cur
                          ELSE [Cur EXCEPT !.radio = ApplyUpdate(@, r.upd),
                                           !.chat_list = r.chat_list,
                                           !.selected = r.selected,
                                           !.chatbot = r.chatbot]
               IN Commit("delete", [NoArgs EXCEPT !.id = sel], out,
                         r.events, r.notes, r.raised, TRUE)

\* rename_chat_btn.click
Rename ==
    \E name \in RenameNames :
    \E rr \in RepliesIf(Asked(handle_rename_chat(selected_chat_id_state, name,
                                                  auth_token_state, NoReply,
                                                  NoChatsReply).events, "rename_chat"),
                        PlainReplies, NoReply) :
        LET sel == selected_chat_id_state
            first == handle_rename_chat(sel, name, auth_token_state, rr, NoChatsReply)
            renamed == HasOkReq(first.events, "rename_chat")
            chats2 == IF renamed
                      THEN [i \in 1..Len(srvChats) |->
                               IF srvChats[i].id = sel
                               THEN [srvChats[i] EXCEPT !.name = name]
                               ELSE srvChats[i]]
                      ELSE srvChats
        IN /\ IsOk(rr) => renamed
           /\ srvChats' = chats2
           /\ UNCHANGED <<srvMsgs, nextId>>
           /\ \E c \in RepliesIf(Asked(first.events, "get_chats"),
                                  ChatsReplies(chats2), NoChatsReply) :
               LET r == handle_rename_chat(sel, name, auth_token_state, rr, c)
                   out == IF r.raised \/ r.noUpdate THEN Cur
                          ELSE [Cur EXCEPT !.radio = ApplyUpdate(@, r.upd),
                                           !.chat_list = r.chat_list]
               IN Commit("rename", [NoArgs EXCEPT !.text = name, !.id = sel], out,
                         r.events, r.notes, r.raised, TRUE)

\* send_btn.click / message_input.submit
Send ==
    \E text \in MsgTexts :
    \E sr \in RepliesIf(Asked(handle_send_and_refresh(selected_chat_id_state, text,
                                                       auth_token_state, NoReply,
                                                       NoMsgsReply).events,
                              "send_message"),
                        PlainReplies, NoReply) :
        LET sel == selected_chat_id_state
            first == handle_send_and_refresh(sel, text, auth_token_state, sr,
                                             NoMsgsReply)
            stored == HasOkReq(first.events, "send_message")
            msgs2 == IF stored
                     THEN [srvMsgs EXCEPT ![sel] =
                              Append(@, Entry(TRUE, text, TRUE, BotReply))]
                     ELSE srvMsgs
        IN /\ IsOk(sr) => /\ stored
                          /\ SrvHas(srvChats, sel)
                          /\ Len(srvMsgs[sel]) < MaxMsgs
           /\ srvMsgs' = msgs2
           /\ UNCHANGED <<srvChats, nextId>>
           /\ \E m \in RepliesIf(Asked(first.events, "get_messages"),
                                  MsgsReplies(srvChats, msgs2, sel), NoMsgsReply) :
               LET r == handle_send_and_refresh(sel, text, auth_token_state, sr, m)
                   out == [Cur EXCEPT !.chatbot = r.chatbot, !.message = r.message]
               IN Commit("send", [NoArgs EXCEPT !.text = text, !.id = sel], out,
                         r.events, r.notes, FALSE, FALSE)

Next ==
    \/ Login
    \/ Logout
    \/ Refresh
    \/ Select
    \/ Create
    \/ Delete
    \/ Rename
    \/ Send

\* Every listener is callable in every state: the handlers check the token
\* and the selection themselves and do not rely on what the page shows.
Spec == Init /\ [][Next]_vars

\* The listeners as the page offers them: the login button while the login
\* group is visible, everything else while the main group is visible.
NextUI ==
    \/ login_view /\ Login
    \/ main_view /\ Logout
    \/ main_view /\ Refresh
    \/ main_view /\ Select
    \/ main_view /\ Create
    \/ main_view /\ Delete
    \/ main_view /\ Rename
    \/ main_view /\ Send

SpecUI == Init /\ [][NextUI]_vars

\* ------------------------------------------- message-history construction
\* The list-messages reply is built from whatever entries the server stores,
\* among them entries written by other clients: an entry's text and bot
\* fields may each be absent, empty or filled.
MaxEntries == 2
EntryTexts == {NoText, <<"h">>}
EntryBots == {NoText, BotReply}
Entries ==
    {Entry(ht, IF ht THEN t ELSE NoText, hb, IF hb THEN b ELSE NoText) :
        ht \in BOOLEAN, t \in EntryTexts, hb \in BOOLEAN, b \in EntryBots}
EntrySeqs == UNION {[1..n -> Entries] : n \in 0..MaxEntries}

\* A logged-in session showing the one chat of the server, none selected yet;
\* the chat holds any entries.
InitHistory ==
    \E es \in EntrySeqs :
        /\ auth_token_state = ServerToken
        /\ chat_list_data_state = <<ChatPair(Point(TRUE, IdOf(1), TRUE, TRUE, <<"a">>))>>
        /\ selected_chat_id_state = None
        /\ login_view = FALSE
        /\ main_view = TRUE
        /\ chat_selector_radio = [choices |-> chat_list_data_state, value |-> None]
        /\ chatbot = <<>>
        /\ message_input = NoText
        /\ srvChats = <<[id |-> IdOf(1), name |-> <<"a">>]>>
        /\ srvMsgs = [c \in ChatIds |-> IF c = IdOf(1) THEN es ELSE <<>>]
        /\ nextId = 2
        /\ pending = Idle
        /\ fetched = [c \in ChatIds |-> None]
        /\ last = [op |-> "init", raised |-> FALSE, events |-> <<>>, notes |-> <<>>,
                   args |-> NoArgs, pre |-> Pre, prev |-> NoPrev]

\* The user selects the chat: get_chat_messages builds the history.
NextHistory == Select

SpecHistory == InitHistory /\ [][NextHistory]_vars

\* ------------------------------------------------- a session with two chats
\* Number of chats the server holds when the session below begins.
ListedChats == 2
StoredMsgs == {<<>>, <<Entry(TRUE, <<"h">>, TRUE, BotReply)>>}

\* A logged-in session whose chat list shows the server's chats, none
\* selected yet; each chat holds no message or one answered message.
InitTwoChats ==
    \E ms \in [{IdOf(n) : n \in 1..ListedChats} -> StoredMsgs] :
        /\ auth_token_state = ServerToken
        /\ chat_list_data_state =
               [n \in 1..ListedChats |-> ChatPair(Point(TRUE, IdOf(n), TRUE, TRUE, <<"a">>))]
        /\ selected_chat_id_state = None
        /\ login_view = FALSE
        /\ main_view = TRUE
        /\ chat_selector_radio = [choices |-> chat_list_data_state, value |-> None]
        /\ chatbot = <<>>
        /\ message_input = NoText
        /\ srvChats = [n \in 1..ListedChats |-> [id |-> IdOf(n), name |-> <<"a">>]]
        /\ srvMsgs = [c \in ChatIds |-> IF c \in DOMAIN ms THEN ms[c] ELSE <<>>]
        /\ nextId = ListedChats + 1
        /\ pending = Idle
        /\ fetched = [c \in ChatIds |-> None]
        /\ last = [op |-> "init", raised |-> FALSE, events |-> <<>>, notes |-> <<>>,
                   args |-> NoArgs, pre |-> Pre, prev |-> NoPrev]

\* The listeners the page offers, run one at a time.
SpecTwoChats == InitTwoChats /\ [][NextUI]_vars

\* ---------------------------------------- send overlapping another listener
\* Gradio runs each listener from its own queue, so the selector's change
\* listener can run while handle_send_and_refresh is in time.sleep(1).
\* SendBegin is the handler up to the settle delay: it has read its inputs
\* and the send-message request has returned 2xx.
SendBegin ==
    /\ ~pending.busy
    /\ \E text \in MsgTexts :
        LET sel == selected_chat_id_state
            first == handle_send_and_refresh(sel, text, auth_token_state,
                                             PlainReply("ok"), NoMsgsReply)
        IN /\ HasOkReq(first.events, "send_message")
           /\ SrvHas(srvChats, sel)
           /\ Len(srvMsgs[sel]) < MaxMsgs
           /\ srvMsgs' = [srvMsgs EXCEPT ![sel] =
                             Append(@, Entry(TRUE, text, TRUE, BotReply))]
           /\ pending' = [busy |-> TRUE, id |-> sel, text |-> text,
                          auth_token |-> auth_token_state]
           /\ UNCHANGED <<uiVars, srvChats, nextId, fetched, last>>

\* SendEnd is the handler after the settle delay: the list-messages fetch for
\* the chat id read at the beginning, and the outputs chatbot, message_input.
SendEnd ==
    /\ pending.busy
    /\ \E m \in MsgsReplies(srvChats, srvMsgs, pending.id) :
        LET r == handle_send_and_refresh(pending.id, pending.text, pending.auth_token,
                                         PlainReply("ok"), m)
            out == [Cur EXCEPT !.chatbot = r.chatbot, !.message = r.message]
        IN /\ Apply("send", [NoArgs EXCEPT !.text = pending.text, !.id = pending.id],
                    out, r.events, r.notes, FALSE, FALSE)
           /\ pending' = Idle
           /\ UNCHANGED srvVars

NextInterleaved ==
    \/ SendBegin
    \/ SendEnd
    \/ Select

SpecInterleaved == InitTwoChats /\ [][NextInterleaved]_vars

\* ================================================================== claims
\* Helpers over the log of the last operation.
EventsOf(ep) == SelectSeq(last.events, LAMBDA e : e.ep = ep)
CountOf(ep) == Len(EventsOf(ep))
SendRequestFailed == CountOf("send_message") = 1 /\ ~EventsOf("send_message")[1].ok
SendRequestOk == CountOf("send_message") = 1 /\ EventsOf("send_message")[1].ok

\* ---- C1 ----------------------------------------------------------------
\* C1: a send with a chat selected and a non-blank text whose send-message
\* request fails leaves the displayed history equal to the history displayed
\* before the send and the message box equal to the typed text, whatever the
\* follow-up list-messages request does.
C1_FailedSendKeepsHistory ==
    (/\ last.op = "send"
     /\ ~Falsy(last.args.id)
     /\ Strip(last.args.text) # NoText
     /\ SendRequestFailed)
    => /\ chatbot = last.pre.chatbot
       /\ message_input = last.args.text

C3_LogoutClearsAll ==
    last.op = "logout" =>
        /\ auth_token_state = None
        /\ chat_list_data_state = <<>>
        /\ selected_chat_id_state = None
        /\ chatbot = <<>>
        /\ chat_selector_radio = [choices |-> <<>>, value |-> None]
        /\ login_view
        /\ ~main_view
        /\ last.events = <<>>
\* A logout from a session with a token, a chat list, a selection and a history.
C3_Witness ==
    /\ last.op = "logout"
    /\ ~Falsy(last.pre.auth_token)
    /\ ~Falsy(last.pre.selected)
    /\ ~Falsy(last.pre.radio_value)
    /\ last.pre.chatbot # <<>>

\* ---- C4 ----------------------------------------------------------------
\* The authenticate request returned 2xx with a non-empty access token.
AuthGranted ==
    /\ CountOf("token") = 1
    /\ EventsOf("token")[1].ok
    /\ ~Falsy(EventsOf("token")[1].got)
LoggedInShown == ~Falsy(auth_token_state) /\ main_view /\ ~login_view
LoggedOutShown ==
    /\ auth_token_state = None
    /\ chat_list_data_state = <<>>
    /\ chat_selector_radio.choices = <<>>
    /\ login_view
    /\ ~main_view
\* C4: login ends with a token present, the main view visible and the login
\* view hidden if and only if the authenticate request returned 2xx with a
\* non-empty access token, the chat list then being what the immediate
\* list-chats refresh gave; in every other case it ends with the token
\* absent, the chat list and the selector choices empty, the login view
\* visible and the main view hidden.
C4_LoginOutcome ==
    last.op = "login" =>
        /\ LoggedInShown <=> AuthGranted
        /\ AuthGranted =>
            /\ CountOf("get_chats") = 1
            /\ chat_list_data_state = EventsOf("get_chats")[1].got
        /\ ~AuthGranted => LoggedOutShown
\* The same outcome, for the logins that return their outputs.
C4_LoginOutcomeWhenReturned ==
    (last.op = "login" /\ ~last.raised) =>
        /\ LoggedInShown <=> AuthGranted
        /\ AuthGranted =>
            /\ CountOf("get_chats") = 1
            /\ chat_list_data_state = EventsOf("get_chats")[1].got
        /\ ~AuthGranted => LoggedOutShown

\* ---- C5 ----------------------------------------------------------------
RenameBlank ==
    /\ last.op = "rename"
    /\ ~Falsy(last.args.id)
    /\ Strip(last.args.text) = NoText
\* C5 as stated: a rename with a chat selected and a blank new name issues no
\* HTTP request of any kind.
C5_BlankRenameNoRequest == RenameBlank => last.events = <<>>
\* C5 as amended: a rename with a chat selected and a blank new name issues no
\* rename request; the only request the operation makes is the list-chats
\* request of its refresh, made exactly once when a token is present and not
\* at all otherwise.
C5_BlankRenameOnlyRefresh ==
    RenameBlank =>
        /\ CountOf("rename_chat") = 0
        /\ Len(last.events) = CountOf("get_chats")
        /\ CountOf("get_chats") = IF Falsy(last.pre.auth_token) THEN 0 ELSE 1
\* A blank rename of a selected chat in a logged-in session.
C5_Witness ==
    /\ RenameBlank
    /\ ~Falsy(last.pre.auth_token)
    /\ last.args.text = Blank
    /\ CountOf("get_chats") = 1

\* ---- C6 ----------------------------------------------------------------
MissingPrecondition ==
    \/ last.op \in {"delete", "rename", "send"} /\ Falsy(last.pre.selected)
    \/ last.op = "login" /\ (Falsy(last.args.user) \/ Falsy(last.args.pass))
\* C6: delete, rename and send with no chat selected, and login with an empty
\* user name or an empty password, issue no HTTP request.
C6_MissingPreconditionNoRequest == MissingPrecondition => last.events = <<>>
\* A rename with no chat selected in a logged-in session whose server has chats.
C6_Witness ==
    /\ last.op = "rename"
    /\ Falsy(last.pre.selected)
    /\ ~Falsy(auth_token_state)
    /\ srvChats # <<>>
    /\ Strip(last.args.text) # NoText

\* ---- C7 ----------------------------------------------------------------
AuthenticatedOps == {"refresh", "select", "create", "rename", "delete", "send"}
\* The value each operation falls back to without a token.
FallbackShown ==
    /\ last.op \in {"refresh", "create"} =>
        chat_list_data_state = <<>> /\ chat_selector_radio.choices = <<>>
    /\ (last.op \in {"rename", "delete"} /\ ~Falsy(last.pre.selected)) =>
        chat_list_data_state = <<>> /\ chat_selector_radio.choices = <<>>
    /\ (last.op = "delete" /\ ~Falsy(last.pre.selected)) =>
        selected_chat_id_state = None /\ chatbot = <<>>
    /\ last.op \in {"select", "send"} => chatbot = <<>>
\* C7: an operation run while the token is absent issues no HTTP request and
\* ends with its fallback value.
C7_NoRequestWithoutToken ==
    (last.op \in AuthenticatedOps /\ Falsy(last.pre.auth_token)) =>
        /\ last.events = <<>>
        /\ ~last.raised
        /\ FallbackShown
\* A send of a non-blank text with a chat selected and the token absent.
C7_Witness ==
    /\ last.op = "send"
    /\ Falsy(last.pre.auth_token)
    /\ ~Falsy(last.pre.selected)
    /\ Strip(last.args.text) # NoText
    /\ last.pre.chatbot # <<>>

\* ---- C8 ----------------------------------------------------------------
DeleteAttempted == last.op = "delete" /\ CountOf("delete_chat") = 1
\* C8: a delete with a chat selected whose delete request was made ends,
\* whatever that request's outcome, with no chat selected and an empty
\* history, and with the chat list replaced by the result of exactly one
\* list-chats refresh issued after the delete request.
C8_DeleteResets ==
    DeleteAttempted =>
        /\ selected_chat_id_state = None
        /\ chatbot = <<>>
        /\ Len(last.events) = 2
        /\ last.events[1].ep = "delete_chat"
        /\ last.events[2].ep = "get_chats"
        /\ chat_list_data_state = last.events[2].got
\* The same, for the deletes that return their outputs.
C8_DeleteResetsWhenReturned == ~last.raised => C8_DeleteResets

\* ---- C9 ----------------------------------------------------------------
RefreshWithSelection ==
    /\ last.op = "refresh"
    /\ ~Falsy(last.pre.auth_token)
    /\ ~Falsy(last.pre.selected)
\* C9 as stated: a manual refresh with a token present and a chat selected
\* leaves the selected chat id and the selector's chosen value as they were.
C9_RefreshKeepsSelection ==
    RefreshWithSelection =>
        /\ selected_chat_id_state = last.pre.selected
        /\ chat_selector_radio.value = last.pre.radio_value
\* C9 as amended: a manual refresh with a token present and a chat selected
\* resets the selector's chosen value to none whenever it returns its outputs
\* and, through the selector's change listener, clears the selected chat id
\* and the history with it; both are left as they were only when the handler
\* raises on the list-chats reply.
C9_RefreshResetsSelection ==
    RefreshWithSelection =>
        IF last.raised
        THEN /\ selected_chat_id_state = last.pre.selected
             /\ chat_selector_radio.value = last.pre.radio_value
        ELSE /\ chat_selector_radio.value = None
             /\ selected_chat_id_state = None
             /\ chatbot = <<>>
             /\ CountOf("get_chats") = 1
             /\ chat_list_data_state = EventsOf("get_chats")[1].got
             /\ chat_selector_radio.choices = chat_list_data_state
\* A manual refresh that returned the server's chats while one was selected
\* and its history displayed.
C9_Witness ==
    /\ RefreshWithSelection
    /\ ~last.raised
    /\ last.pre.radio_value = last.pre.selected
    /\ last.pre.chatbot # <<>>
    /\ chat_list_data_state # <<>>

\* ---- C10 ---------------------------------------------------------------
MutationWithSelection ==
    /\ last.op \in {"create", "rename", "delete"}
    /\ ~Falsy(last.pre.auth_token)
    /\ ~Falsy(last.pre.selected)
\* An operation completes when its handler returns and its outputs (and the
\* selector's change listener they trigger) are applied; a handler that
\* raises returns nothing.
Completed == ~last.raised
\* C10: with a token present and a chat selected, after a create, a rename or
\* a delete completes no chat is selected.
C10_MutationResetsSelection ==
    (MutationWithSelection /\ Completed) => selected_chat_id_state = None
\* A completed create in a session with a chat selected and its history shown.
C10_Witness ==
    /\ MutationWithSelection
    /\ Completed
    /\ last.op = "create"
    /\ last.pre.chatbot # <<>>
    /\ chat_list_data_state # <<>>

\* ---- C11 ---------------------------------------------------------------
\* C11: every operation, whatever the server replies to the requests it makes,
\* ends by returning its outputs; no exception escapes a handler.
C11_NoExceptionEscapes == ~last.raised

\* ---- C12 ---------------------------------------------------------------
\* The last operation was a select whose list-messages request returned 2xx
\* with a body that parsed.
FetchedWellFormed ==
    /\ last.op = "select"
    /\ CountOf("get_messages") = 1
    /\ EventsOf("get_messages")[1].ok
    /\ last.notes = <<>>
RECURSIVE ConcatInOrder(_)
ConcatInOrder(ss) ==
    IF ss = <<>> THEN <<>>
    ELSE ConcatInOrder(SubSeq(ss, 1, Len(ss) - 1)) \o ss[Len(ss)]
TurnsIfPresent(e) ==
    (IF e.hasText THEN <<Turn("user", e.text)>> ELSE <<>>)
    \o (IF e.hasBot THEN <<Turn("assistant", e.bot)>> ELSE <<>>)
TurnsIfNonEmpty(e) ==
    (IF e.hasText /\ e.text # NoText THEN <<Turn("user", e.text)>> ELSE <<>>)
    \o (IF e.hasBot /\ e.bot # NoText THEN <<Turn("assistant", e.bot)>> ELSE <<>>)
\* C12 as stated: the history built from a well-formed list-messages reply is
\* the in-order concatenation, over the entries, of a user turn when the entry
\* has a text field followed by an assistant turn when it has a bot field.
C12_TurnPerPresentField ==
    FetchedWellFormed =>
        LET pts == srvMsgs[last.args.id] IN
        chatbot = ConcatInOrder([i \in 1..Len(pts) |-> TurnsIfPresent(pts[i])])
\* C12 as amended: the history is the in-order concatenation, over the
\* entries, of a user turn when the entry has a non-empty text followed by an
\* assistant turn when it has a non-empty bot value; a field that is present
\* but empty contributes no turn.
C12_TurnPerNonEmptyField ==
    FetchedWellFormed =>
        LET pts == srvMsgs[last.args.id] IN
        chatbot = ConcatInOrder([i \in 1..Len(pts) |-> TurnsIfNonEmpty(pts[i])])
\* A history of three turns built from two entries: the first with text and
\* bot, the second with a bot value only.
C12_Witness ==
    /\ FetchedWellFormed
    /\ Len(srvMsgs[last.args.id]) = 2
    /\ chatbot = <<Turn("user", <<"h">>), Turn("assistant", BotReply),
                   Turn("assistant", BotReply)>>

\* ---- C13 ---------------------------------------------------------------
\* The last two operations were refreshes run with a token present, the first
\* of which returned; the server's chats did not change in between.
TwoRefreshes ==
    /\ last.op = "refresh"
    /\ ~Falsy(last.pre.auth_token)
    /\ last.prev.refresh
\* C13 as stated: two consecutive refreshes with a token present give the same
\* chat list, whether each of the two list-chats requests succeeds or fails.
C13_RefreshTwiceSameList == TwoRefreshes => chat_list_data_state = last.prev.chats
\* C13 as amended: two consecutive refreshes with a token present that both
\* return give the same chat list when their list-chats requests have the same
\* outcome (both 2xx or both failed); a failed request gives the empty list.
C13_RefreshTwiceSameOutcomeSameList ==
    (TwoRefreshes /\ ~last.raised) =>
        /\ Listed(last.events) = last.prev.listed
            => chat_list_data_state = last.prev.chats
        /\ Listed(last.events) = "failed" => chat_list_data_state = <<>>
\* Two consecutive refreshes that both fetched the server's one chat.
C13_Witness ==
    /\ TwoRefreshes
    /\ ~last.raised
    /\ Listed(last.events) = "ok"
    /\ last.prev.listed = "ok"
    /\ chat_list_data_state # <<>>
    /\ chat_list_data_state = last.prev.chats

\* ---- C14 ---------------------------------------------------------------
\* C14: a send with no chat selected issues no request and leaves the
\* displayed history and the typed text as they were.
C14_SendWithoutSelectionNoOp ==
    (last.op = "send" /\ Falsy(last.pre.selected)) =>
        /\ last.events = <<>>
        /\ chatbot = last.pre.chatbot
        /\ message_input = last.args.text

\* ---- C15 ---------------------------------------------------------------
InChatList(id) ==
    \E i \in 1..Len(chat_list_data_state) : chat_list_data_state[i][2] = id
\* C15: in every state the listeners of the page lead to, any of their
\* requests failing, the selected chat id, when present, is the id of an
\* entry of the session's chat list.
C15_SelectionInChatList ==
    ~Falsy(selected_chat_id_state) => InChatList(selected_chat_id_state)
\* A rename whose refresh raised: the chat is still selected and still listed.
C15_Witness ==
    /\ last.op = "rename"
    /\ last.raised
    /\ HasOkReq(last.events, "rename_chat")
    /\ ~Falsy(selected_chat_id_state)
    /\ InChatList(selected_chat_id_state)

\* ---- C16 ---------------------------------------------------------------
\* C16: with the listeners run one at a time, the displayed history is empty
\* or is the result of the latest list-messages fetch made for the chat that
\* is selected; with no chat selected it is empty.
C16_HistoryOfSelection ==
    /\ Falsy(selected_chat_id_state) => chatbot = <<>>
    /\ chatbot # <<>> => chatbot = fetched[selected_chat_id_state]
\* The second chat is selected and its history shown, after the first chat
\* had been selected and fetched with another result.
C16_Witness ==
    /\ selected_chat_id_state = IdOf(2)
    /\ chatbot # <<>>
    /\ chatbot = fetched[IdOf(2)]
    /\ fetched[IdOf(1)] # None
    /\ fetched[IdOf(1)] # fetched[IdOf(2)]

\* ---- C17 ---------------------------------------------------------------
\* A send for one chat has finished after the user selected another chat
\* during its settle delay.
SendOvertaken ==
    /\ last.op = "send"
    /\ ~pending.busy
    /\ ~Falsy(selected_chat_id_state)
    /\ selected_chat_id_state # last.args.id
\* C17: when a select of chat B runs to completion while a send for chat A is
\* in its settle delay, then once both have finished the displayed history is
\* one fetched for B, the chat finally selected.
C17_InterleavedHistoryOfSelected ==
    SendOvertaken => chatbot = fetched[selected_chat_id_state]

\* ---- C18 ---------------------------------------------------------------
\* C18: exactly one of the two views is visible, the main view exactly when
\* the token is present; and while the login view is visible the chat list is
\* empty, no chat is selected and the history is empty.
C18_ViewAndTokenAgree ==
    /\ login_view # main_view
    /\ main_view <=> ~Falsy(auth_token_state)
    /\ login_view =>
        /\ chat_list_data_state = <<>>
        /\ selected_chat_id_state = None
        /\ chatbot = <<>>
\* A login that failed, after a logout from a session that had created a chat.
C18_Witness ==
    /\ last.op = "login"
    /\ CountOf("token") = 1
    /\ ~EventsOf("token")[1].ok
    /\ srvChats # <<>>
    /\ login_view
    /\ ~main_view

HasNote(n) == \E i \in 1..Len(last.notes) : last.notes[i] = n
\* C20: in a delete with a chat selected, the success message saying that the
\* chat was deleted is emitted only when the delete request returned 2xx; when
\* it did not, a warning is emitted and no success message.
C20_DeletedMessageOnlyOn2xx ==
    (/\ last.op = "delete"
     /\ ~Falsy(last.pre.selected)
     /\ ~HasOkReq(last.events, "delete_chat"))
    => /\ ~HasNote(Note("success", "deleted"))
       /\ HasNote(Note("warning", "deleting chat"))

====
